---- MODULE Spec2Model ----
(***************************************************************************)
(* State-machine model of app.py: a Streamlit script that is re-run from   *)
(* top to bottom on every user interaction.  One run renders the page,     *)
(* and, when the button was clicked, calls the memoized function           *)
(* get_llm_response(user_question, expert_profile_key).                    *)
(*                                                                         *)
(* Japanese string literals of the source are written in ASCII here:       *)
(*   "tech_journalist"     = the first key of EXPERT_PROFILES  (line 26)   *)
(*   "historian"           = the second key                    (line 27)   *)
(*   "business_consultant" = the third key                     (line 28)   *)
(* A formatted string (an f-string) is the tuple of its parts.             *)
(***************************************************************************)
EXTENDS Integers, Sequences, FiniteSets, TLC

VARIABLES
    pc,               \* position of the script run
    env_key,          \* whether load_dotenv() made an API key available
    selected_expert,  \* value of the sidebar radio (widget key expert_radio)
    user_input,       \* value of the text area (widget key input_area)
    clicked,          \* st.button's value in the current run
    rendered,         \* the elements the current run has put on the page
    cache,            \* st.cache_data's store for get_llm_response
    callArgs,         \* arguments of the active/last get_llm_response call
    inflight,         \* the message list handed to llm.invoke, <<>> if none
    outcome,          \* how the last get_llm_response call ended
    answered,         \* history: what the API returned for each (q, k)
    failed,           \* history: pairs whose latest API call failed
    runApiCalls       \* history: outbound API calls since the last trigger/call

vars == <<pc, env_key, selected_expert, user_input, clicked, rendered, cache,
          callArgs, inflight, outcome, answered, failed, runApiCalls>>

-----------------------------------------------------------------------------
(* Bounds of the model *)

NumQuestions == 1
NumTexts == 2

QuestionPool == <<"q1", "q2", "q3">>
TextPool == <<"t1", "t2", "t3", "t4">>

\* The question texts the user may type; "" is the empty text area.
NonEmptyQuestions == {QuestionPool[i] : i \in 1..NumQuestions}
Questions == {""} \cup NonEmptyQuestions

\* The completion texts the external API may return.
Texts == {TextPool[i] : i \in 1..NumTexts}

\* The failures llm.invoke may raise: exception type name and str(e).
ApiErrors ==
    { [type |-> "AuthenticationError", msg |-> <<"invalid api key">>],
      [type |-> "APIConnectionError",  msg |-> <<"Connection error.">>] }

\* Inputs of the direct calls of get_llm_response (specification SvcSpec).
UNREGISTERED == "unregistered"
SvcQuestions == {"", QuestionPool[1]}

-----------------------------------------------------------------------------
(* The persona registry *)

EXPERT_KEYS == <<"tech_journalist", "historian", "business_consultant">>

EXPERT_PROFILES ==
    [k \in {EXPERT_KEYS[i] : i \in 1..Len(EXPERT_KEYS)} |->
        CASE k = "tech_journalist"     -> "prompt_tech_journalist_answer_in_japanese"
          [] k = "historian"           -> "prompt_historian_answer_in_japanese"
          [] k = "business_consultant" -> "prompt_business_consultant_answer_in_japanese"]

SvcKeys == DOMAIN EXPERT_PROFILES \cup {UNREGISTERED}

NoValue == "no_value"
NoOutcome == [kind |-> "none"]

El(w, body) == [w |-> w, body |-> body]

Shown(e) == \E i \in 1..Len(rendered) : rendered[i] = e
ShownKind(w) == \E i \in 1..Len(rendered) : rendered[i].w = w


-----------------------------------------------------------------------------
(* Pure parts of the script *)

\* Mutant: the radio offers an option that is no registry key.
RadioOptionsExtra == Append(EXPERT_KEYS, UNREGISTERED)

\* list(EXPERT_PROFILES.keys()): the keys in insertion order.
RadioOptions == EXPERT_KEYS

\* st.radio without index: the first option until the user picks one.
RadioValue(state, options) == IF state = NoValue THEN options[1] ELSE state

\* Mutant: the handler does not test the question for emptiness.
TruthyAlways(s) == TRUE

\* Python truthiness of a str, "if user_input:".
Truthy(s) == s # ""

\* Mutant: EXPERT_PROFILES.get(key, default) instead of a subscript.
LookupProfileDefault(k) ==
    IF k \in DOMAIN EXPERT_PROFILES
    THEN [ok |-> TRUE, prompt |-> EXPERT_PROFILES[k]]
    ELSE [ok |-> TRUE, prompt |-> EXPERT_PROFILES[EXPERT_KEYS[1]]]

\* EXPERT_PROFILES[expert_profile_key]: the prompt, or KeyError(key), whose
\* str() is the repr of the key.
LookupProfile(k) ==
    IF k \in DOMAIN EXPERT_PROFILES
    THEN [ok |-> TRUE, prompt |-> EXPERT_PROFILES[k]]
    ELSE [ok |-> FALSE, type |-> "KeyError", msg |-> <<"'", k, "'">>]

\* Mutant: the two messages in the wrong order.
BuildMessagesSwapped(system_message, user_question) ==
    << [role |-> "user",   content |-> user_question],
       [role |-> "system", content |-> system_message] >>

\* messages = [SystemMessage(content=...), HumanMessage(content=...)]
BuildMessages(system_message, user_question) ==
    << [role |-> "system", content |-> system_message],
       [role |-> "user",   content |-> user_question] >>

\* Mutant: the cache keyed on the question alone.
CacheKeyQuestionOnly(q, k) == <<q, "">>

\* st.cache_data keys an entry on the function's arguments.
CacheKey(q, k) == <<q, k>>

\* Mutant: the function is not memoized (no decorator).
CacheStoreDropped(c, key, value) == c

\* st.cache_data stores the value a call returned.
CacheStore(c, key, value) == (key :> value) @@ c

\* Mutant: the failure is caught inside the function and its text returned,
\* so that the cache stores it.
CacheFailureStored(c, key, e) == (key :> e.type) @@ c

\* st.cache_data stores nothing when the function raises.
CacheAfterFailure(c, key, e) == c

\* result.content of the message llm.invoke returned.
ResultContent(result) == result.content

\* Mutant: the message without the exception's type name.
ErrorMessageNoType(type, msg) == <<"llm_run_error: ">> \o msg

\* f"LLM error: {type(e).__name__} - {e}"
ErrorMessage(type, msg) == <<"llm_run_error: ", type, " - ">> \o msg

\* f"model init failed, check the API key: {e}"
InitErrorMessage(msg) == <<"llm_init_failed_check_api_key: ">> \o msg

FAILED_PLACEHOLDER == "failed_to_get_answer_see_error_above"

TitleEl == El("title", <<"expert_llm_app">>)
PageEls(sel, text) ==
    << El("markdown", <<"overview_and_usage">>),
       El("sidebar_header", <<"expert_selection">>),
       El("radio", RadioOptions),
       El("sidebar_info", <<sel>>),
       El("text_area", <<text>>),
       El("button", <<"generate_answer">>) >>

-----------------------------------------------------------------------------
(* get_llm_response, behind st.cache_data *)

\* A call of get_llm_response(q, k): a cache hit returns the stored value
\* without running the body; otherwise the body runs up to llm.invoke, or
\* raises KeyError at the registry lookup.
CallGetLLMResponse(q, k) ==
    /\ callArgs' = <<q, k>>
    /\ IF CacheKey(q, k) \in DOMAIN cache
       THEN /\ outcome' = [kind |-> "value", value |-> cache[CacheKey(q, k)]]
            /\ pc' = "returned"
            /\ UNCHANGED <<inflight, runApiCalls>>
       ELSE LET p == LookupProfile(k) IN
            IF p.ok
            THEN /\ inflight' = BuildMessages(p.prompt, q)
                 /\ runApiCalls' = runApiCalls + 1
                 /\ outcome' = NoOutcome
                 /\ pc' = "invoke"
            ELSE /\ outcome' = [kind |-> "raise", type |-> p.type, msg |-> p.msg]
                 /\ pc' = "returned"
                 /\ UNCHANGED <<inflight, runApiCalls>>
    /\ UNCHANGED <<cache, answered, failed>>

\* llm.invoke(messages) returns: the body returns result.content and the
\* cache stores it under the call's arguments.
ApiReturn(t) ==
    /\ pc = "invoke"
    /\ LET result == [content |-> t]
           value == ResultContent(result)
       IN /\ cache' = CacheStore(cache, CacheKey(callArgs[1], callArgs[2]), value)
          /\ outcome' = [kind |-> "value", value |-> value]
          /\ answered' = answered @@ (callArgs :> t)
    /\ failed' = failed \ {callArgs}
    /\ inflight' = <<>>
    /\ pc' = "returned"
    /\ UNCHANGED <<env_key, selected_expert, user_input, clicked, rendered,
                   callArgs, runApiCalls>>

\* llm.invoke(messages) raises: the exception leaves get_llm_response.
ApiFail(e) ==
    /\ pc = "invoke"
    /\ cache' = CacheAfterFailure(cache, CacheKey(callArgs[1], callArgs[2]), e)
    /\ outcome' = [kind |-> "raise", type |-> e.type, msg |-> e.msg]
    /\ failed' = failed \cup {callArgs}
    /\ inflight' = <<>>
    /\ pc' = "returned"
    /\ UNCHANGED <<env_key, selected_expert, user_input, clicked, rendered,
                   callArgs, answered, runApiCalls>>

-----------------------------------------------------------------------------
(* One run of the script *)

\* Lines 16-37 when ChatOpenAI(...) is constructed.
StartupOk ==
    /\ pc = "start"
    /\ env_key
    /\ rendered' = <<TitleEl>>
    /\ pc' = "page"
    /\ UNCHANGED <<env_key, selected_expert, user_input, clicked, cache,
                   callArgs, inflight, outcome, answered, failed, runApiCalls>>

\* Mutant: st.error without st.stop(), the script goes on.
StartupNoStop ==
    /\ pc = "start"
    /\ ~env_key
    /\ rendered' = <<TitleEl, El("error", InitErrorMessage(<<"api_key_missing">>))>>
    /\ pc' = "page"
    /\ UNCHANGED <<env_key, selected_expert, user_input, clicked, cache,
                   callArgs, inflight, outcome, answered, failed, runApiCalls>>

\* Lines 16-37 when ChatOpenAI(...) raises: st.error, st.stop.
StartupHalt ==
    /\ pc = "start"
    /\ ~env_key
    /\ rendered' = <<TitleEl, El("error", InitErrorMessage(<<"api_key_missing">>))>>
    /\ pc' = "stopped"
    /\ UNCHANGED <<env_key, selected_expert, user_input, clicked, cache,
                   callArgs, inflight, outcome, answered, failed, runApiCalls>>

\* Lines 82-109: the overview, the sidebar radio, the text area, the button.
RenderPage ==
    /\ pc = "page"
    /\ selected_expert' = RadioValue(selected_expert, RadioOptions)
    /\ rendered' = rendered \o PageEls(selected_expert', user_input)
    /\ pc' = IF clicked THEN "handler" ELSE "idle"
    /\ UNCHANGED <<env_key, user_input, clicked, cache, callArgs, inflight,
                   outcome, answered, failed, runApiCalls>>

\* Lines 126-127: the button was pressed with an empty text area.
HandlerWarn ==
    /\ pc = "handler"
    /\ ~Truthy(user_input)
    /\ rendered' = rendered \o <<El("warning", <<"please_enter_a_question">>)>>
    /\ pc' = "idle"
    /\ UNCHANGED <<env_key, selected_expert, user_input, clicked, cache,
                   callArgs, inflight, outcome, answered, failed, runApiCalls>>

\* Lines 110-116: the spinner and the call of get_llm_response.
HandlerCall ==
    /\ pc = "handler"
    /\ Truthy(user_input)
    /\ rendered' = rendered \o <<El("spinner", <<selected_expert>>)>>
    /\ CallGetLLMResponse(user_input, selected_expert)
    /\ UNCHANGED <<env_key, selected_expert, user_input, clicked>>

\* Mutant: the except clause calls get_llm_response again.
HandlerRenderRetry ==
    /\ pc = "returned"
    /\ IF outcome.kind = "raise"
       THEN /\ pc' = "handler"
            /\ UNCHANGED rendered
       ELSE /\ rendered' = rendered \o << El("subheader", <<selected_expert>>),
                                          El("info", <<outcome.value>>) >>
            /\ pc' = "idle"
    /\ UNCHANGED <<env_key, selected_expert, user_input, clicked, cache,
                   callArgs, inflight, outcome, answered, failed, runApiCalls>>

\* Lines 116-124: the except clause and the rendering of the answer.
HandlerRender ==
    /\ pc = "returned"
    /\ LET llm_response_content ==
               IF outcome.kind = "raise" THEN FAILED_PLACEHOLDER ELSE outcome.value
           shown ==
               (IF outcome.kind = "raise"
                THEN <<El("error", ErrorMessage(outcome.type, outcome.msg))>>
                ELSE <<>>)
               \o << El("subheader", <<selected_expert>>),
                     El("info", <<llm_response_content>>) >>
       IN rendered' = rendered \o shown
    /\ pc' = "idle"
    /\ UNCHANGED <<env_key, selected_expert, user_input, clicked, cache,
                   callArgs, inflight, outcome, answered, failed, runApiCalls>>

-----------------------------------------------------------------------------
(* The user's interactions; each one re-runs the script *)

Rerun ==
    /\ pc' = "start"
    /\ rendered' = <<>>
    /\ outcome' = NoOutcome
    /\ runApiCalls' = 0
    /\ callArgs' = <<>>
    /\ UNCHANGED <<env_key, cache, inflight, answered, failed>>

\* The user picks one of the options the radio offers.
SelectExpert(k) ==
    /\ pc = "idle"
    /\ \E i \in 1..Len(rendered) :
          /\ rendered[i].w = "radio"
          /\ \E j \in 1..Len(rendered[i].body) : rendered[i].body[j] = k
    /\ k # selected_expert
    /\ selected_expert' = k
    /\ clicked' = FALSE
    /\ UNCHANGED user_input
    /\ Rerun

\* The user changes the text of the text area.
TypeQuestion(q) ==
    /\ pc = "idle"
    /\ ShownKind("text_area")
    /\ q # user_input
    /\ user_input' = q
    /\ clicked' = FALSE
    /\ UNCHANGED selected_expert
    /\ Rerun

\* The user presses the button.
ClickButton ==
    /\ pc = "idle"
    /\ ShownKind("button")
    /\ clicked' = TRUE
    /\ UNCHANGED <<selected_expert, user_input>>
    /\ Rerun

-----------------------------------------------------------------------------
(* Specifications *)

EmptyCache == [x \in {} |-> ""]

\* The values the program's state takes.
TypeOK ==
    /\ pc \in {"start", "page", "handler", "invoke", "returned", "idle",
               "stopped", "caller"}
    /\ env_key \in BOOLEAN
    /\ selected_expert \in SvcKeys \cup {NoValue}
    /\ user_input \in Questions
    /\ clicked \in BOOLEAN
    /\ \A i \in 1..Len(rendered) : DOMAIN rendered[i] = {"w", "body"}
    /\ DOMAIN cache \subseteq (Questions \cup SvcQuestions) \X DOMAIN EXPERT_PROFILES
    /\ \A key \in DOMAIN cache : cache[key] \in Texts
    /\ callArgs \in {<<>>} \cup ((Questions \cup SvcQuestions) \X SvcKeys)
    /\ Len(inflight) \in {0, 2}
    /\ outcome.kind \in {"none", "value", "raise"}
    /\ DOMAIN answered \subseteq (Questions \cup SvcQuestions) \X DOMAIN EXPERT_PROFILES
    /\ failed \subseteq (Questions \cup SvcQuestions) \X DOMAIN EXPERT_PROFILES
    /\ runApiCalls \in {0, 1}

Init ==
    /\ pc = "start"
    /\ env_key \in BOOLEAN
    /\ selected_expert = NoValue
    /\ user_input = ""
    /\ clicked = FALSE
    /\ rendered = <<>>
    /\ cache = EmptyCache
    /\ callArgs = <<>>
    /\ inflight = <<>>
    /\ outcome = NoOutcome
    /\ answered = EmptyCache
    /\ failed = {}
    /\ runApiCalls = 0

Next ==
    \/ StartupOk
    \/ StartupHalt
    \/ RenderPage
    \/ HandlerWarn
    \/ HandlerCall
    \/ \E t \in Texts : ApiReturn(t)
    \/ \E e \in ApiErrors : ApiFail(e)
    \/ HandlerRender
    \/ \E k \in DOMAIN EXPERT_PROFILES \cup {UNREGISTERED} : SelectExpert(k)
    \/ \E q \in Questions : TypeQuestion(q)
    \/ ClickButton

Spec == Init /\ [][Next]_vars

\* A script run proceeds, and the external API eventually returns or fails.
FairSpec ==
    /\ Spec
    /\ WF_vars(StartupOk \/ StartupHalt \/ RenderPage \/ HandlerWarn
               \/ HandlerCall \/ HandlerRender)
    /\ WF_vars((\E t \in Texts : ApiReturn(t)) \/ (\E e \in ApiErrors : ApiFail(e)))

-----------------------------------------------------------------------------
(* get_llm_response called directly, as a test or another caller would *)

DirectCall(q, k) ==
    /\ pc = "caller"
    /\ CallGetLLMResponse(q, k)
    /\ UNCHANGED <<env_key, selected_expert, user_input, clicked, rendered>>

\* The caller takes the value or the exception and is ready to call again.
CallerReceive ==
    /\ pc = "returned"
    /\ pc' = "caller"
    /\ runApiCalls' = 0
    /\ UNCHANGED <<env_key, selected_expert, user_input, clicked, rendered,
                   cache, callArgs, inflight, outcome, answered, failed>>

SvcInit ==
    /\ pc = "caller"
    /\ env_key = TRUE
    /\ selected_expert = NoValue
    /\ user_input = ""
    /\ clicked = FALSE
    /\ rendered = <<>>
    /\ cache = EmptyCache
    /\ callArgs = <<>>
    /\ inflight = <<>>
    /\ outcome = NoOutcome
    /\ answered = EmptyCache
    /\ failed = {}
    /\ runApiCalls = 0

SvcNext ==
    \/ \E q \in SvcQuestions, k \in SvcKeys : DirectCall(q, k)
    \/ \E t \in Texts : ApiReturn(t)
    \/ \E e \in ApiErrors : ApiFail(e)
    \/ CallerReceive

SvcSpec == SvcInit /\ [][SvcNext]_vars

-----------------------------------------------------------------------------
(* Vocabulary of the properties *)

\* A step in which get_llm_response is called (from the button handler or
\* from a direct caller).
CallStarts == pc \in {"handler", "caller"} /\ pc' \in {"invoke", "returned"}

\* A step in which a call hands a prompt to the external API.
ApiCallIssued == CallStarts /\ pc' = "invoke"

InfoCount == Cardinality({i \in 1..Len(rendered) : rendered[i].w = "info"})

WarningEl == El("warning", <<"please_enter_a_question">>)

\* The three things a trigger activation can end with.
ShowsResponse ==
    /\ InfoCount = 1
    /\ ~Shown(El("info", <<FAILED_PLACEHOLDER>>))
    /\ ~ShownKind("error")
    /\ ~ShownKind("warning")
ShowsFailure ==
    /\ InfoCount = 1
    /\ Shown(El("info", <<FAILED_PLACEHOLDER>>))
    /\ ShownKind("error")
    /\ ~ShownKind("warning")
ShowsWarning ==
    /\ InfoCount = 0
    /\ Shown(WarningEl)
    /\ ~ShownKind("error")

-----------------------------------------------------------------------------
(* C1 *)

\* C1 as stated: a call of get_llm_response(q, k) never issues an external
\* API call for a pair (q, k) that an earlier call already sent to the API,
\* i.e. every pair sees at most one external call.
C1_AtMostOneApiCallPerPair ==
    [][ApiCallIssued => (callArgs' \notin failed /\ callArgs' \notin DOMAIN answered)]_vars

\* C1 amended: once a call for (q, k) has returned from the API successfully,
\* every later call with the identical pair issues no external call and
\* returns the value of that first successful call.
C1_MemoAfterSuccess ==
    [][(CallStarts /\ callArgs' \in DOMAIN answered)
          => /\ pc' = "returned"
             /\ outcome' = [kind |-> "value", value |-> answered[callArgs']]
             /\ runApiCalls' = runApiCalls
             /\ inflight' = <<>>]_vars

\* A second call for an answered pair has returned without an API call.
C1_Witness ==
    /\ pc = "returned"
    /\ runApiCalls = 0
    /\ callArgs \in DOMAIN answered
    /\ outcome = [kind |-> "value", value |-> answered[callArgs]]

-----------------------------------------------------------------------------
(* C2 *)

\* C2: a call that fails in the external API leaves the cache as it was,
\* with no entry for its pair, and the next call with the identical pair
\* hands its prompt to the external API again.
C2_FailureNotCached ==
    [][/\ (pc = "invoke" /\ outcome'.kind = "raise")
             => (cache' = cache /\ callArgs \notin DOMAIN cache')
       /\ (CallStarts /\ callArgs' \in failed)
             => (pc' = "invoke" /\ inflight' # <<>> /\ runApiCalls' = runApiCalls + 1)]_vars

\* The API is being called again for a pair whose previous call failed.
C2_Witness ==
    /\ pc = "invoke"
    /\ callArgs \in failed
    /\ callArgs \notin DOMAIN cache

-----------------------------------------------------------------------------
(* C3 *)

\* C3: every cache entry is held under the full pair (q, k) and holds what
\* the API returned for that very pair, and a first call for (q, k2) issues
\* its own external call even when (q, k1), k1 # k2, is already cached.
C3_PersonaInCacheKey ==
    /\ [](\A key \in DOMAIN cache :
             key \in DOMAIN answered /\ cache[key] = answered[key])
    /\ [][(/\ CallStarts
           /\ callArgs' \notin DOMAIN answered
           /\ callArgs'[2] \in DOMAIN EXPERT_PROFILES
           /\ \E k1 \in DOMAIN EXPERT_PROFILES :
                 k1 # callArgs'[2] /\ <<callArgs'[1], k1>> \in DOMAIN cache)
             => pc' = "invoke"]_vars

\* The same question is cached under two personas with different answers,
\* the second obtained by an external call of its own.
C3_Witness ==
    /\ pc = "returned"
    /\ runApiCalls = 1
    /\ outcome.kind = "value"
    /\ \E k1 \in DOMAIN EXPERT_PROFILES :
          /\ k1 # callArgs[2]
          /\ <<callArgs[1], k1>> \in DOMAIN cache
          /\ cache[<<callArgs[1], k1>>] # outcome.value

-----------------------------------------------------------------------------
(* C4 *)

\* C4: a run triggered with an empty question never calls get_llm_response
\* (no call, no external API call, no cache write in progress) and ends with
\* the validation warning and no response, whatever the persona and history.
C4_EmptyQuestionWarns ==
    (clicked /\ user_input = "")
        => /\ pc \notin {"invoke", "returned"}
           /\ callArgs = <<>>
           /\ inflight = <<>>
           /\ runApiCalls = 0
           /\ outcome = NoOutcome
           /\ pc = "idle" => ShowsWarning

\* The warning is shown for an empty question after earlier answers were
\* cached, with a persona other than the default.
C4_Witness ==
    /\ pc = "idle"
    /\ clicked
    /\ user_input = ""
    /\ ShowsWarning
    /\ cache # EmptyCache
    /\ selected_expert # EXPERT_KEYS[1]

-----------------------------------------------------------------------------
(* C5 *)

\* C5: on a cache miss the prompt handed to the API is exactly two messages,
\* system with the registry's prompt for k, then user with q; and a run that
\* got a completion from the API shows exactly that text.
C5_PromptAndVerbatimAnswer ==
    /\ [][ApiCallIssued
             => inflight' = << [role |-> "system",
                                content |-> EXPERT_PROFILES[callArgs'[2]]],
                               [role |-> "user", content |-> callArgs'[1]] >>]_vars
    /\ []((pc = "idle" /\ runApiCalls = 1 /\ callArgs \in DOMAIN answered)
             => (ShowsResponse /\ Shown(El("info", <<answered[callArgs]>>))))
    /\ [][(pc = "invoke" /\ outcome'.kind = "value")
             => outcome'.value = answered'[callArgs]]_vars

\* A completion fetched from the API in this run is on the page.
C5_Witness ==
    /\ pc = "idle"
    /\ runApiCalls = 1
    /\ callArgs \in DOMAIN answered
    /\ Shown(El("info", <<answered[callArgs]>>))
    /\ callArgs[2] = "historian"

-----------------------------------------------------------------------------
(* C6, under SvcSpec *)

\* C6: a call of get_llm_response(q, k) with k outside the registry raises
\* the registry's lookup error (KeyError) without handing anything to the
\* external API and without adding a cache entry.
C6_UnknownPersonaFails ==
    /\ [][(CallStarts /\ callArgs'[2] \notin DOMAIN EXPERT_PROFILES)
             => /\ pc' = "returned"
                /\ outcome'.kind = "raise"
                /\ outcome'.type = "KeyError"
                /\ inflight' = <<>>
                /\ runApiCalls' = runApiCalls
                /\ cache' = cache]_vars
    /\ [](\A key \in DOMAIN cache : key[2] \in DOMAIN EXPERT_PROFILES)
    /\ [](pc = "invoke" => callArgs[2] \in DOMAIN EXPERT_PROFILES)

\* A call with an unregistered key has raised, with other pairs cached.
C6_Witness ==
    /\ pc = "returned"
    /\ callArgs[2] = UNREGISTERED
    /\ outcome.kind = "raise"
    /\ outcome.type = "KeyError"
    /\ cache # EmptyCache

-----------------------------------------------------------------------------
(* C7 *)

\* C7: a run whose call of get_llm_response failed ends showing the error
\* message with the failure's type name and message and the placeholder as
\* the only output, after a single external call, with nothing cached for
\* the pair, and the button can be pressed again.
C7_FailureShown ==
    (pc = "idle" /\ outcome.kind = "raise")
        => /\ Shown(El("error",
                       <<"llm_run_error: ", outcome.type, " - ">> \o outcome.msg))
           /\ ShowsFailure
           /\ runApiCalls <= 1
           /\ callArgs \notin DOMAIN cache
           /\ ENABLED ClickButton

\* A failed submission is on the page.
C7_Witness ==
    /\ pc = "idle"
    /\ outcome.kind = "raise"
    /\ outcome.type = "APIConnectionError"
    /\ ShowsFailure

-----------------------------------------------------------------------------
(* C8 *)

\* C8 as stated: when the construction of the API client fails, the run
\* halts with the configuration error and no other UI rendered.
C8_NoUiRendered ==
    pc = "stopped"
        => /\ ShownKind("error")
           /\ \A i \in 1..Len(rendered) : rendered[i].w = "error"

\* C8 amended: when the construction of the API client fails, the run halts
\* having rendered only the page title and the configuration error: no
\* selector, text area or button is offered, no interaction is possible and
\* get_llm_response is never called.
C8_HaltsBeforeInput ==
    /\ ~env_key => /\ pc \in {"start", "stopped"}
                   /\ callArgs = <<>>
                   /\ runApiCalls = 0
                   /\ cache = EmptyCache
    /\ pc = "stopped"
          => /\ rendered = <<TitleEl,
                             El("error", <<"llm_init_failed_check_api_key: ",
                                           "api_key_missing">>)>>
             /\ ~ENABLED ClickButton
             /\ ~ENABLED (\E q \in Questions : TypeQuestion(q))
             /\ ~ENABLED (\E k \in DOMAIN EXPERT_PROFILES : SelectExpert(k))

\* The run has halted on the configuration error.
C8_Witness ==
    /\ pc = "stopped"
    /\ ~env_key
    /\ ShownKind("error")

-----------------------------------------------------------------------------
(* C9 *)

\* C9: the radio offers exactly the three registry keys in definition order,
\* its value starts as the first of them, and the key passed to
\* get_llm_response is always a registry key, so the lookup never fails.
C9_PersonaAlwaysRegistered ==
    /\ [](/\ Cardinality(DOMAIN EXPERT_PROFILES) = 3
          /\ selected_expert \in DOMAIN EXPERT_PROFILES \cup {NoValue}
          /\ pc \in {"handler", "invoke", "returned", "idle"}
                => selected_expert \in DOMAIN EXPERT_PROFILES
          /\ callArgs # <<>> => callArgs[2] \in DOMAIN EXPERT_PROFILES
          /\ outcome.kind = "raise" => outcome.type # "KeyError"
          /\ \A i \in 1..Len(rendered) :
                rendered[i].w = "radio"
                   => rendered[i].body = <<"tech_journalist", "historian",
                                           "business_consultant">>)
    /\ [][(selected_expert = NoValue /\ selected_expert' # NoValue)
             => selected_expert' = "tech_journalist"]_vars

\* A persona other than the default is passed to get_llm_response.
C9_Witness ==
    /\ pc = "invoke"
    /\ callArgs[2] = "business_consultant"
    /\ selected_expert = "business_consultant"

-----------------------------------------------------------------------------
(* C10, under FairSpec *)

====
